---- MODULE Spec2Model ----
(***************************************************************************)
(* Model of murder_mystery_cli.py: the propositional sentence model, the   *)
(* brute-force entailment / consistency engine, the exactly-one constraint *)
(* builder and the MurderMystery knowledge base with its guarded           *)
(* assert_item / exclude_item operations.                                  *)
(*                                                                         *)
(* Python strings are TLA+ strings; "+" on strings is \o.  The glyphs the  *)
(* source prints for negation, conjunction and disjunction are written     *)
(* "~", " & " and " | ".  None is the empty tuple.                         *)
(***************************************************************************)
EXTENDS Naturals, Sequences, FiniteSets, TLC

VARIABLES
    KB,      \* self.KB, the list of sentences
    last,    \* the latest call on the MurderMystery object and what it reported
    args,    \* the argument of a direct call of a pure function
    result   \* what that call returned

vars == <<KB, last, args, result>>

None == <<>>

Range(f) == {f[i] : i \in DOMAIN f}

-----------------------------------------------------------------------------
(* Sentence model *)

Symbol(name) == [type |-> "Symbol", name |-> name]

Not(x) == [type |-> "Not", x |-> x]

And(xs) == [type |-> "And", xs |-> xs]

Or(xs) == [type |-> "Or", xs |-> xs]

RECURSIVE join(_, _)
join(sep, strs) ==
    IF Len(strs) = 0 THEN ""
    ELSE IF Len(strs) = 1 THEN strs[1]
    ELSE strs[1] \o sep \o join(sep, Tail(strs))

RECURSIVE repr(_)
repr(s) ==
    CASE s.type = "Symbol" -> s.name
      [] s.type = "Not" -> "~" \o repr(s.x)
      [] s.type = "And" ->
            "(" \o join(" & ", [i \in DOMAIN s.xs |-> repr(s.xs[i])]) \o ")"
      [] s.type = "Or" ->
            "(" \o join(" | ", [i \in DOMAIN s.xs |-> repr(s.xs[i])]) \o ")"

RECURSIVE eval_sentence(_, _)
eval_sentence(s, model) ==
    CASE s.type = "Symbol" ->
            IF s.name \in DOMAIN model THEN model[s.name] ELSE FALSE
      [] s.type = "Not" -> ~eval_sentence(s.x, model)
      [] s.type = "And" -> \A i \in DOMAIN s.xs : eval_sentence(s.xs[i], model)
      [] s.type = "Or" -> \E i \in DOMAIN s.xs : eval_sentence(s.xs[i], model)

\* itertools.product([False, True], repeat=len(names)) zipped with names
Models(symbols) == [{symbols[i].name : i \in DOMAIN symbols} -> BOOLEAN]

satisfies(model, sentences) ==
    \A i \in DOMAIN sentences : eval_sentence(sentences[i], model)

\* model_check, had it answered False when no assignment satisfies the KB
model_check_NeedsModel(kb, query, symbols) ==
    /\ \E model \in Models(symbols) : satisfies(model, kb)
    /\ \A model \in Models(symbols) :
            satisfies(model, kb) => eval_sentence(query, model)

model_check(kb, query, symbols) ==
    \A model \in Models(symbols) :
        satisfies(model, kb) => eval_sentence(query, model)

-----------------------------------------------------------------------------
(* Constraint builder *)

RECURSIVE at_most_one(_, _, _)
at_most_one(symbols, i, j) ==
    IF i > Len(symbols) THEN <<>>
    ELSE IF j > Len(symbols) THEN at_most_one(symbols, i + 1, i + 2)
    ELSE <<Not(And(<<symbols[i], symbols[j]>>))>>
            \o at_most_one(symbols, i, j + 1)

\* exactly_one, had it left out the disjunction (at least one)
exactly_one_AtMostOne(symbols) == at_most_one(symbols, 1, 2)

\* exactly_one, had the inner loop of the first row started one pair late
exactly_one_SkipsPair(symbols) == <<Or(symbols)>> \o at_most_one(symbols, 1, 3)

exactly_one(symbols) == <<Or(symbols)>> \o at_most_one(symbols, 1, 2)

-----------------------------------------------------------------------------
(* Domain knowledge *)

SUSPECTS == <<"Lord Alaric", "Lady Morgana", "Butler Edwin">>

WEAPONS == <<"Silver Dagger", "Broken Wine Bottle", "Piano Wire">>

ROOMS == <<"Library", "Dining Hall", "Rose Garden">>

\* a dict is its key list (insertion order) and its value list
symbols_of(prefix, names) == [i \in DOMAIN names |-> Symbol(prefix \o names[i])]

S == symbols_of("S_", SUSPECTS)

W == symbols_of("W_", WEAPONS)

R == symbols_of("R_", ROOMS)

ALL == S \o W \o R

InitKB == exactly_one(S) \o exactly_one(W) \o exactly_one(R)

-----------------------------------------------------------------------------
(* Name resolution: a Python string as the sequence of its characters *)

\* the characters of every string handed to lower() or tested with "in"
chars ==
    "Lord Alaric" :> <<"L", "o", "r", "d", " ", "A", "l", "a", "r", "i", "c">>
    @@ "Lady Morgana" :> <<"L", "a", "d", "y", " ", "M", "o", "r", "g", "a", "n", "a">>
    @@ "Butler Edwin" :> <<"B", "u", "t", "l", "e", "r", " ", "E", "d", "w", "i", "n">>
    @@ "Silver Dagger" :> <<"S", "i", "l", "v", "e", "r", " ", "D", "a", "g", "g", "e", "r">>
    @@ "Broken Wine Bottle" :> <<"B", "r", "o", "k", "e", "n", " ", "W", "i", "n", "e", " ", "B", "o", "t", "t", "l", "e">>
    @@ "Piano Wire" :> <<"P", "i", "a", "n", "o", " ", "W", "i", "r", "e">>
    @@ "Library" :> <<"L", "i", "b", "r", "a", "r", "y">>
    @@ "Dining Hall" :> <<"D", "i", "n", "i", "n", "g", " ", "H", "a", "l", "l">>
    @@ "Rose Garden" :> <<"R", "o", "s", "e", " ", "G", "a", "r", "d", "e", "n">>
    @@ "wire" :> <<"w", "i", "r", "e">>
    @@ "l" :> <<"l">>

\* what the user may type after a command: every item name under its own
\* category, a unique substring, an ambiguous substring and a substring of an
\* item of another category
Inputs ==
    {<<"s", SUSPECTS[i]>> : i \in DOMAIN SUSPECTS}
        \cup {<<"w", WEAPONS[i]>> : i \in DOMAIN WEAPONS}
        \cup {<<"r", ROOMS[i]>> : i \in DOMAIN ROOMS}
        \cup {<<"w", "wire">>, <<"s", "l">>, <<"r", "wire">>}

lower_char ==
    "A" :> "a" @@ "B" :> "b" @@ "C" :> "c" @@ "D" :> "d" @@ "E" :> "e" @@ "F" :> "f"
    @@ "G" :> "g" @@ "H" :> "h" @@ "I" :> "i" @@ "J" :> "j" @@ "K" :> "k" @@ "L" :> "l"
    @@ "M" :> "m" @@ "N" :> "n" @@ "O" :> "o" @@ "P" :> "p" @@ "Q" :> "q" @@ "R" :> "r"
    @@ "S" :> "s" @@ "T" :> "t" @@ "U" :> "u" @@ "V" :> "v" @@ "W" :> "w" @@ "X" :> "x"
    @@ "Y" :> "y" @@ "Z" :> "z"

lower(cs) ==
    [i \in DOMAIN cs |-> IF cs[i] \in DOMAIN lower_char THEN lower_char[cs[i]]
                         ELSE cs[i]]

\* Python's "a in b" on strings
contains(a, b) ==
    \E k \in 0..(Len(b) - Len(a)) : SubSeq(b, k + 1, k + Len(a)) = a

\* the positions of a list of n elements, in order (filtered with SelectSeq as
\* a list comprehension filters)
Indices(n) ==
    [i \in 1..n |-> i]

\* _resolve_name, had it taken the first of several substring matches
_resolve_name_FirstMatch(symbol_dict, text) ==
    LET names == symbol_dict[1]
        symbols == symbol_dict[2]
        text_lower == lower(chars[text])
        IsExact(i) == lower(chars[names[i]]) = text_lower
        exact == SelectSeq(Indices(Len(names)), IsExact)
        IsSub(i) == contains(text_lower, lower(chars[names[i]]))
        matches == SelectSeq(Indices(Len(names)), IsSub)
    IN  IF exact # <<>> THEN symbols[exact[1]]
        ELSE IF Len(matches) >= 1 THEN symbols[matches[1]]
        ELSE None

\* symbol_dict is <<names, symbols>>, the dict's items in insertion order
_resolve_name(symbol_dict, text) ==
    LET names == symbol_dict[1]
        symbols == symbol_dict[2]
        text_lower == lower(chars[text])
        IsExact(i) == lower(chars[names[i]]) = text_lower
        exact == SelectSeq(Indices(Len(names)), IsExact)
        IsSub(i) == contains(text_lower, lower(chars[names[i]]))
        matches == SelectSeq(Indices(Len(names)), IsSub)
    IN  IF exact # <<>> THEN symbols[exact[1]]
        ELSE IF Len(matches) = 1 THEN symbols[matches[1]]
        ELSE None

-----------------------------------------------------------------------------
(* MurderMystery *)

\* add_fact, had it rebuilt the KB from the constraints and the new sentences
add_fact_Rebuilds(kb, sentences) == InitKB \o sentences

\* add_fact, had it appended every sentence without looking at "existing"
add_fact_AppendsAll(kb, sentences) == kb \o sentences

RECURSIVE add_fact(_, _)
add_fact(kb, sentences) ==
    IF sentences = <<>> THEN kb
    ELSE LET sentence == Head(sentences)
             existing == {repr(kb[i]) : i \in DOMAIN kb}
         IN  IF repr(sentence) \notin existing
             THEN add_fact(Append(kb, sentence), Tail(sentences))
             ELSE add_fact(kb, Tail(sentences))

\* _has_model, had it asked for any sentence to hold rather than all
_has_model_Any(kb) ==
    \E model \in Models(ALL) : \E i \in DOMAIN kb : eval_sentence(kb[i], model)

_has_model(kb) == \E model \in Models(ALL) : satisfies(model, kb)

\* consistent_with, had it checked the new facts alone
consistent_with_FactsAlone(kb, facts) == _has_model(facts)

\* consistent_with, had it left the new facts out
consistent_with_KBAlone(kb, facts) == _has_model(kb)

consistent_with(kb, facts) == _has_model(kb \o facts)

ItemNames == Range(SUSPECTS) \cup Range(WEAPONS) \cup Range(ROOMS)

Tags == {"S_", "W_", "R_"}

\* a key of a model split into its two-character category tag and the rest
split_key ==
    [k \in {ALL[i].name : i \in DOMAIN ALL} |->
        CHOOSE pair \in Tags \X ItemNames : k = pair[1] \o pair[2]]

\* k.startswith(prefix), for the keys of a model and a category tag
startswith(k, prefix) == split_key[k][1] = prefix

\* k[2:], the key without its category tag
strip_tag(k) == split_key[k][2]

\* the generator, had it left out "and v"
true_items_AnyValue(model, prefix) ==
    LET Hit(i) == startswith(ALL[i].name, prefix)
        idx == SelectSeq(Indices(Len(ALL)), Hit)
    IN  [j \in DOMAIN idx |-> strip_tag(ALL[idx[j]].name)]

\* the generator (k[2:] for k, v in model.items() if k.startswith(prefix) and v)
true_items(model, prefix) ==
    LET Hit(i) == startswith(ALL[i].name, prefix) /\ model[ALL[i].name]
        idx == SelectSeq(Indices(Len(ALL)), Hit)
    IN  [j \in DOMAIN idx |-> strip_tag(ALL[idx[j]].name)]

\* what get_candidates yields when a next(...) finds nothing (the exception)
StopIteration == {<<"StopIteration">>}

\* the sorted list of distinct triples, as the set of its elements
get_candidates(kb) ==
    LET sat == {model \in Models(ALL) : satisfies(model, kb)}
        found == {<<true_items(model, "S_"), true_items(model, "W_"),
                    true_items(model, "R_")>> : model \in sat}
    IN  IF \E f \in found : \E k \in 1..3 : f[k] = <<>>
        THEN StopIteration
        ELSE {<<Head(f[1]), Head(f[2]), Head(f[3])>> : f \in found}

\* get_solution, had it joined the three column tests with "or"
get_solution_AnyColumn(kb) ==
    LET candidates == get_candidates(kb)
        suspects == {c[1] : c \in candidates}
        weapons == {c[2] : c \in candidates}
        rooms == {c[3] : c \in candidates}
    IN  IF candidates = {} THEN None
        ELSE IF Cardinality(suspects) = 1 \/ Cardinality(weapons) = 1
                    \/ Cardinality(rooms) = 1
             THEN <<CHOOSE s \in suspects : TRUE, CHOOSE w \in weapons : TRUE,
                    CHOOSE r \in rooms : TRUE>>
             ELSE None

get_solution(kb) ==
    LET candidates == get_candidates(kb)
        suspects == {c[1] : c \in candidates}
        weapons == {c[2] : c \in candidates}
        rooms == {c[3] : c \in candidates}
    IN  IF candidates = {} THEN None
        ELSE IF Cardinality(suspects) = 1 /\ Cardinality(weapons) = 1
                    /\ Cardinality(rooms) = 1
             THEN <<CHOOSE s \in suspects : TRUE, CHOOSE w \in weapons : TRUE,
                    CHOOSE r \in rooms : TRUE>>
             ELSE None

\* the status lines, had every item that is not YES been printed as MAYBE
status_lines_AllMaybe(kb, names, symbols) ==
    [i \in DOMAIN names |->
        <<names[i], IF model_check(kb, symbols[i], ALL) THEN "YES" ELSE "MAYBE">>]

\* one printed line of show_status per listed item, in print order
status_lines(kb, names, symbols) ==
    LET Mark(i) ==
            IF model_check(kb, symbols[i], ALL) THEN "YES"
            ELSE IF ~model_check(kb, Not(symbols[i]), ALL) THEN "MAYBE"
            ELSE ""
        Listed(i) == Mark(i) # ""
        idx == SelectSeq(Indices(Len(names)), Listed)
    IN  [j \in DOMAIN idx |-> <<names[idx[j]], Mark(idx[j])>>]

\* show_status, had it not looked for a model first
show_status_Unchecked(kb) ==
    [inconsistent |-> FALSE,
     lines |-> status_lines(kb, SUSPECTS, S) \o status_lines(kb, WEAPONS, W)
                    \o status_lines(kb, ROOMS, R)]

show_status(kb) ==
    IF ~_has_model(kb) THEN [inconsistent |-> TRUE, lines |-> <<>>]
    ELSE [inconsistent |-> FALSE,
          lines |-> status_lines(kb, SUSPECTS, S) \o status_lines(kb, WEAPONS, W)
                        \o status_lines(kb, ROOMS, R)]

\* {"s": self.S, "w": self.W, "r": self.R}[category]
symbol_dict(category) ==
    CASE category = "s" -> <<SUSPECTS, S>>
      [] category = "w" -> <<WEAPONS, W>>
      [] category = "r" -> <<ROOMS, R>>

\* the presence test, had it asked whether the KB entails the literal
in_KB_Entailed(kb, fact) == model_check(kb, fact, ALL)

\* the presence test, had it stopped before the newest sentence
in_KB_SkipsLast(kb, fact) ==
    \E i \in 1..(Len(kb) - 1) : repr(fact) = repr(kb[i])

in_KB(kb, fact) == \E i \in DOMAIN kb : repr(fact) = repr(kb[i])

\* the number of user facts the model lets a session add
MaxFacts == 2

\* a call and what it printed: "added" (Added: ...), "already" (... is already
\* excluded / asserted), "inconsistent" (Cannot ... - would make knowledge base
\* inconsistent), "no match" (No match found for ...)
Call(op, category, name, outcome) ==
    [op |-> op, category |-> category, name |-> name, outcome |-> outcome]

\* exclude_item, had it appended the symbol itself as assert_item does
exclude_item_AddsSymbol(category, name) ==
    /\ UNCHANGED <<args, result>>
    /\ LET target == _resolve_name(symbol_dict(category), name)
           fact == Not(target)
       IN  IF target = None
           THEN /\ last' = Call("exclude_item", category, name, "no match")
                /\ UNCHANGED KB
           ELSE IF in_KB(KB, fact)
           THEN /\ last' = Call("exclude_item", category, name, "already")
                /\ UNCHANGED KB
           ELSE IF ~consistent_with(KB, <<fact>>)
           THEN /\ last' = Call("exclude_item", category, name, "inconsistent")
                /\ UNCHANGED KB
           ELSE /\ KB' = add_fact(KB, <<target>>)
                /\ last' = Call("exclude_item", category, name, "added")

exclude_item(category, name) ==
    /\ UNCHANGED <<args, result>>
    /\ LET target == _resolve_name(symbol_dict(category), name)
           fact == Not(target)
       IN  IF target = None
           THEN /\ last' = Call("exclude_item", category, name, "no match")
                /\ UNCHANGED KB
           ELSE IF in_KB(KB, fact)
           THEN /\ last' = Call("exclude_item", category, name, "already")
                /\ UNCHANGED KB
           ELSE IF ~consistent_with(KB, <<fact>>)
           THEN /\ last' = Call("exclude_item", category, name, "inconsistent")
                /\ UNCHANGED KB
           ELSE /\ KB' = add_fact(KB, <<fact>>)
                /\ last' = Call("exclude_item", category, name, "added")

\* assert_item, had it left out the consistency check
assert_item_Unguarded(category, name) ==
    /\ UNCHANGED <<args, result>>
    /\ LET target == _resolve_name(symbol_dict(category), name)
       IN  IF target = None
           THEN /\ last' = Call("assert_item", category, name, "no match")
                /\ UNCHANGED KB
           ELSE IF in_KB(KB, target)
           THEN /\ last' = Call("assert_item", category, name, "already")
                /\ UNCHANGED KB
           ELSE /\ KB' = add_fact(KB, <<target>>)
                /\ last' = Call("assert_item", category, name, "added")

assert_item(category, name) ==
    /\ UNCHANGED <<args, result>>
    /\ LET target == _resolve_name(symbol_dict(category), name)
       IN  IF target = None
           THEN /\ last' = Call("assert_item", category, name, "no match")
                /\ UNCHANGED KB
           ELSE IF in_KB(KB, target)
           THEN /\ last' = Call("assert_item", category, name, "already")
                /\ UNCHANGED KB
           ELSE IF ~consistent_with(KB, <<target>>)
           THEN /\ last' = Call("assert_item", category, name, "inconsistent")
                /\ UNCHANGED KB
           ELSE /\ KB' = add_fact(KB, <<target>>)
                /\ last' = Call("assert_item", category, name, "added")

\* mystery = MurderMystery()
Init ==
    /\ KB = InitKB
    /\ last = Call("__init__", "", "", "")
    /\ args = None
    /\ result = None

\* the session is cut off once it has added max facts
Bounded(max) == Len(KB) < Len(InitKB) + max

\* one command of the main loop: s.no / w.no / r.no or s.yes / w.yes / r.yes
Next ==
    \/ \E input \in Inputs :
            Bounded(MaxFacts) /\ exclude_item(input[1], input[2])
    \/ \E input \in Inputs :
            Bounded(MaxFacts) /\ assert_item(input[1], input[2])

Spec == Init /\ [][Next]_vars

-----------------------------------------------------------------------------
(* Sessions that also call add_fact directly, without the consistency guard *)

\* argument lists of direct add_fact calls: three literals that pin one
\* triple, two suspects at once, a repeated sentence, a disjunction across
\* categories, the denial of a whole category, a symbol outside ALL
FactLists ==
    {<<S[1], W[2], R[3]>>,
     <<S[1], S[2]>>,
     <<Not(W[1]), Not(W[1])>>,
     <<Or(<<S[2], W[3]>>)>>,
     <<Not(Or(R))>>,
     <<Symbol("X_Unknown")>>}

AddFact(sentences) ==
    /\ KB' = add_fact(KB, sentences)
    /\ last' = Call("add_fact", "", "", "")
    /\ UNCHANGED <<args, result>>

NextAddFact ==
    \/ \E input \in Inputs :
            Bounded(MaxFacts) /\ exclude_item(input[1], input[2])
    \/ \E input \in Inputs :
            Bounded(MaxFacts) /\ assert_item(input[1], input[2])
    \/ \E sentences \in FactLists : Bounded(MaxFacts) /\ AddFact(sentences)

SpecAddFact == Init /\ [][NextAddFact]_vars

-----------------------------------------------------------------------------
(* The exclusion scenario: two suspects, two weapons and two rooms are ruled  *)
(* out, in any order                                                          *)

ScenarioInputs ==
    {<<"s", SUSPECTS[1]>>, <<"s", SUSPECTS[2]>>, <<"w", WEAPONS[1]>>,
     <<"w", WEAPONS[2]>>, <<"r", ROOMS[1]>>, <<"r", ROOMS[2]>>}

\* the number of exclusions of the scenario
MaxExclusions == 6

NextScenario ==
    \E input \in ScenarioInputs :
        Bounded(MaxExclusions) /\ exclude_item(input[1], input[2])

SpecScenario == Init /\ [][NextScenario]_vars

-----------------------------------------------------------------------------
(* Direct calls of exactly_one on lists of distinct symbols *)

\* the longest list handed to exactly_one
MaxSymbols == 4

SymbolLists ==
    UNION {{[i \in 1..n |-> ALL[f[i]]] :
                f \in {g \in [1..n -> DOMAIN ALL] :
                          \A i, j \in 1..n : i # j => g[i] # g[j]}} :
           n \in 1..MaxSymbols}

InitExactlyOne ==
    /\ KB = InitKB
    /\ last = Call("__init__", "", "", "")
    /\ args \in SymbolLists
    /\ result = None

CallExactlyOne ==
    /\ result = None
    /\ result' = exactly_one(args)
    /\ UNCHANGED <<KB, last, args>>

SpecExactlyOne == InitExactlyOne /\ [][CallExactlyOne]_vars

-----------------------------------------------------------------------------
(* Sessions that stay within one category, with every command on it, and go   *)
(* on until no command is accepted any more                                   *)

\* the place of a category among the three, by the letter of its commands and
\* by the tag of its symbols
Rank == "s" :> 1 @@ "w" :> 2 @@ "r" :> 3 @@ "S_" :> 1 @@ "W_" :> 2 @@ "R_" :> 3

\* the symbol of a literal
SymbolOf(fact) == IF fact.type = "Not" THEN fact.x ELSE fact

\* the place of the category of the i-th sentence of the KB, a literal
RankOfFact(i) == Rank[split_key[SymbolOf(KB[i]).name][1]]

\* every fact added so far is of the given category
SameCategory(category) ==
    \A i \in (Len(InitKB) + 1)..Len(KB) : RankOfFact(i) = Rank[category]

NextCategory ==
    \/ \E input \in Inputs :
            SameCategory(input[1]) /\ exclude_item(input[1], input[2])
    \/ \E input \in Inputs :
            SameCategory(input[1]) /\ assert_item(input[1], input[2])

SpecCategory == Init /\ [][NextCategory]_vars

-----------------------------------------------------------------------------
(* Sessions that settle the suspects, then the weapons, then the rooms (once  *)
(* every category has its three literals any command may come again), and    *)
(* go on until no command is accepted any more: for each category            *)
(* the exclusion of the first two items and the assertion of the third, and  *)
(* the assertion of the first suspect                                        *)

SessionAssertions ==
    {<<"s", SUSPECTS[3]>>, <<"w", WEAPONS[3]>>, <<"r", ROOMS[3]>>,
     <<"s", SUSPECTS[1]>>}

\* the number of literals of a category in the KB
LiteralsIn(category) ==
    Cardinality({i \in (Len(InitKB) + 1)..Len(KB) : RankOfFact(i) = Rank[category]})

\* no fact of a later category has been added yet, or every category has
\* its three literals (any command may then come again)
InOrder(category) ==
    \/ \A i \in (Len(InitKB) + 1)..Len(KB) : RankOfFact(i) <= Rank[category]
    \/ \A c \in {"s", "w", "r"} : LiteralsIn(c) = 3

NextSession ==
    \/ \E input \in ScenarioInputs :
            InOrder(input[1]) /\ exclude_item(input[1], input[2])
    \/ \E input \in SessionAssertions :
            InOrder(input[1]) /\ assert_item(input[1], input[2])

SpecSession == Init /\ [][NextSession]_vars

-----------------------------------------------------------------------------
(* Direct calls of model_check *)

\* knowledge bases handed to model_check: none, the constraints, the
\* constraints with one fact, with two facts that leave a single suspect, with
\* contradicting facts, a contradiction alone, one group of constraints, a
\* disjunction across categories
KBLists ==
    {<<>>,
     InitKB,
     InitKB \o <<S[1]>>,
     InitKB \o <<Not(S[1]), Not(S[2])>>,
     InitKB \o <<S[1], S[2]>>,
     <<W[1], Not(W[1])>>,
     exactly_one(S),
     <<Or(<<S[1], W[1]>>), Not(W[1])>>}

\* queries: every symbol, its negation, a conjunction, a disjunction
Queries ==
    {ALL[i] : i \in DOMAIN ALL} \cup {Not(ALL[i]) : i \in DOMAIN ALL}
        \cup {And(<<S[1], Not(S[2])>>), Or(<<S[1], S[2]>>)}

InitModelCheck ==
    /\ KB = InitKB
    /\ last = Call("__init__", "", "", "")
    /\ args \in [kb : KBLists, query : Queries, symbols : {ALL, S}]
    /\ result = None

\* the answer is kept in a one-element tuple, which None is not
CallModelCheck ==
    /\ result = None
    /\ result' = <<model_check(args.kb, args.query, args.symbols)>>
    /\ UNCHANGED <<KB, last, args>>

SpecModelCheck == InitModelCheck /\ [][CallModelCheck]_vars

-----------------------------------------------------------------------------
(* Properties *)

IsItemCall(call) == call.op \in {"assert_item", "exclude_item"}

\* the symbol a recorded assert_item / exclude_item call resolved to, or None
Target(call) == _resolve_name(symbol_dict(call.category), call.name)

\* the sentence that call adds when it is accepted
Literal(call) ==
    IF call.op = "assert_item" THEN Target(call) ELSE Not(Target(call))

UserFacts == SubSeq(KB, Len(InitKB) + 1, Len(KB))

\* C1: starting from the three exactly-one groups, after any sequence of
\* assert_item and exclude_item calls the KB is satisfiable.
C1_ConsistencyPreserved == _has_model(KB)

\* an accepted call has been followed by a refused one, and the KB has a model
C1_Witness ==
    /\ Len(UserFacts) >= 1
    /\ last.outcome = "inconsistent"
    /\ _has_model(KB)

\* C2: a call whose literal would leave the KB without a model is refused
\* (any call that resolves and is not refused has a literal the KB has a model
\* with), and a refused call leaves the KB as it was, same sentences in the
\* same order; show_status reads nothing but the KB, so its classification is
\* the same as before.
C2_RefusalLeavesKB ==
    [][IsItemCall(last') =>
        \A target \in {Target(last')} :
            /\ (target # None /\ last'.outcome # "inconsistent")
                    => \A kb \in {KB \o <<Literal(last')>>} : _has_model(kb)
            /\ last'.outcome = "inconsistent" => KB' = KB]_vars

\* a call was refused as inconsistent
C2_Witness ==
    /\ IsItemCall(last)
    /\ last.outcome = "inconsistent"
    /\ Target(last) # None
    /\ ~_has_model(KB \o <<Literal(last)>>)

\* C3: when a call is accepted, the same call on the same item made right
\* after it reports already-present and leaves the KB as the first call left it.
C3_Idempotent ==
    [][(/\ IsItemCall(last)
        /\ last.outcome = "added"
        /\ last'.op = last.op
        /\ last'.category = last.category
        /\ Target(last') = Target(last))
            => (last'.outcome = "already" /\ KB' = KB)]_vars

\* the item whose literal was added last has been asserted (resp. excluded)
\* again
C3_Witness ==
    /\ IsItemCall(last)
    /\ last.outcome = "already"
    /\ Len(UserFacts) >= 1
    /\ KB[Len(KB)] = Literal(last)

\* C4: whatever a call does (a direct add_fact included), every candidate
\* after the call was a candidate before it.
C4_CandidatesShrink ==
    [][KB' # KB => get_candidates(KB') \subseteq get_candidates(KB)]_vars

\* an accepted call has ruled candidates out
C4_Witness ==
    /\ last.outcome = "added"
    /\ get_candidates(KB) # {}
    /\ get_candidates(KB) # get_candidates(InitKB)

\* C5: one candidate: get_solution returns it; two or more candidates (they
\* differ in some column, also when other columns hold a single value):
\* None; no candidate: None.
C5_CollapseCorrect ==
    LET candidates == get_candidates(KB)
        solution == get_solution(KB)
    IN  /\ Cardinality(candidates) = 1 => {solution} = candidates
        /\ Cardinality(candidates) >= 2 => solution = None
        /\ candidates = {} => solution = None

\* exactly one candidate is left and get_solution returns it
C5_Witness ==
    /\ Cardinality(get_candidates(KB)) = 1
    /\ get_solution(KB) \in get_candidates(KB)

FactSet == {UserFacts[i] : i \in DOMAIN UserFacts}

\* C6: on the 3x3x3 domain the session starts with the 27 triples of the full
\* product; with the first two suspects excluded and nothing else, 9 triples
\* are left, all with the third suspect, and there is no solution yet; with
\* two suspects, two weapons and two rooms excluded, in whatever order, the
\* one triple of the remaining items is left and is the solution; none of
\* the exclusions is refused.
C6_Scenario ==
    LET candidates == get_candidates(KB)
        remaining == <<SUSPECTS[3], WEAPONS[3], ROOMS[3]>>
    IN  /\ last.op = "exclude_item" => last.outcome \in {"added", "already"}
        /\ last.outcome = "added" => KB[Len(KB)] = Literal(last)
        /\ UserFacts = <<>> =>
                /\ Cardinality(candidates) = 27
                /\ candidates = Range(SUSPECTS) \X Range(WEAPONS) \X Range(ROOMS)
        /\ FactSet = {Not(S[1]), Not(S[2])} =>
                /\ Cardinality(candidates) = 9
                /\ \A c \in candidates : c[1] = SUSPECTS[3]
                /\ get_solution(KB) = None
        /\ Len(UserFacts) = 6 =>
                /\ candidates = {remaining}
                /\ get_solution(KB) = remaining

\* the six exclusions have been made and the solution is the remaining triple
C6_Witness ==
    /\ Len(UserFacts) = 6
    /\ last.outcome = "added"
    /\ get_solution(KB) = <<SUSPECTS[3], WEAPONS[3], ROOMS[3]>>

\* C7: once X is asserted, excluding X is refused as inconsistent and the KB
\* keeps X and does not hold ~X; once X is excluded, asserting X is refused
\* and the KB keeps ~X and does not hold X.
C7_OppositeRefused ==
    IsItemCall(last) /\ Target(last) # None =>
        LET X == Target(last)
        IN  /\ (last.op = "exclude_item" /\ in_KB(KB, X))
                => (last.outcome = "inconsistent" /\ ~in_KB(KB, Not(X)))
            /\ (last.op = "assert_item" /\ in_KB(KB, Not(X)))
                => (last.outcome = "inconsistent" /\ ~in_KB(KB, X))

\* an asserted item has been excluded afterwards
C7_Witness ==
    /\ last.op = "exclude_item"
    /\ Target(last) # None
    /\ in_KB(KB, Target(last))
    /\ last.outcome = "inconsistent"

\* C8: for a list of n >= 1 distinct symbols, exactly_one returns C(n,2)+1
\* formulas, the disjunction of all symbols followed by one negated conjunction
\* per unordered pair, and of the 2^n assignments over the symbols exactly the
\* n with a single true symbol satisfy them; the initial KB, three groups for
\* three symbols each, has 12 sentences.
C8_ExactlyOne ==
    result # None =>
        LET n == Len(args)
            sat == {model \in Models(args) : satisfies(model, result)}
            pairs == {<<i, j>> \in (1..n) \X (1..n) : i < j}
            rest == {result[k] : k \in 2..Len(result)}
        IN  /\ Cardinality(sat) = n
            /\ sat = {model \in Models(args) :
                        Cardinality({i \in 1..n : model[args[i].name]}) = 1}
            /\ 2 * Len(result) = n * (n - 1) + 2
            /\ result[1] = Or(args)
            /\ rest = {Not(And(<<args[p[1]], args[p[2]]>>)) : p \in pairs}
            /\ Len(KB) = 12

\* exactly_one has returned for a list of three symbols
C8_Witness ==
    /\ result # None
    /\ Len(args) = 3
    /\ Len(result) = 4

\* C9 as stated: with a KB that has no model, show_status, get_candidates and
\* get_solution each report the inconsistency, neither an empty candidate list
\* nor the None of an undetermined KB.
C9_AllReportInconsistency ==
    ~_has_model(KB) =>
        /\ show_status(KB).inconsistent
        /\ get_candidates(KB) # {}
        /\ get_solution(KB) # None

\* C9 as the code has it: show_status reports the inconsistency, and does so
\* only for a KB without a model; get_candidates returns the empty list, which
\* it returns for no KB that has a model, and get_solution returns None as
\* for an undetermined KB.
C9_OnlyStatusReports ==
    /\ show_status(KB).inconsistent <=> ~_has_model(KB)
    /\ get_candidates(KB) = {} <=> ~_has_model(KB)
    /\ ~_has_model(KB) => get_solution(KB) = None

\* direct add_fact calls have left the KB without a model
C9_Witness ==
    /\ ~_has_model(KB)
    /\ show_status(KB).inconsistent
    /\ get_candidates(KB) = {}
    /\ get_solution(KB) = None

Listed(lines, name) == \E i \in DOMAIN lines : lines[i][1] = name

\* C10: with a KB that has models, show_status lists an item with YES iff its
\* symbol is true in all of them, with MAYBE iff it is true in one and false
\* in another, and not at all iff it is false in all; no item is listed twice;
\* an excluded item and the other items of a category with an asserted item
\* are not listed.  With a KB without models only the inconsistency is
\* reported.
C10_StatusClassification ==
    LET status == show_status(KB)
        lines == {status.lines[i] : i \in DOMAIN status.lines}
        sat == {model \in Models(ALL) : satisfies(model, KB)}
        Right(dict) ==
            \A i \in DOMAIN dict[1] :
                LET name == dict[1][i]
                    key == dict[2][i].name
                    always == \A model \in sat : model[key]
                    once == \E model \in sat : model[key]
                IN  /\ <<name, "YES">> \in lines <=> always
                    /\ <<name, "MAYBE">> \in lines <=> (once /\ ~always)
                    /\ Listed(status.lines, name) <=> once
                    /\ in_KB(KB, Not(dict[2][i])) => ~Listed(status.lines, name)
                    /\ in_KB(KB, dict[2][i]) =>
                            \A j \in DOMAIN dict[1] :
                                j # i => ~Listed(status.lines, dict[1][j])
    IN  IF sat = {}
        THEN status.inconsistent /\ status.lines = <<>>
        ELSE /\ ~status.inconsistent
             /\ Cardinality(lines) = Len(status.lines)
             /\ \A line \in lines : line[2] \in {"YES", "MAYBE"}
             /\ Right(symbol_dict("s"))
             /\ Right(symbol_dict("w"))
             /\ Right(symbol_dict("r"))

\* an item is asserted, one of another category is excluded: the first shows
\* YES, the others of its category and the excluded one are not listed
C10_Witness ==
    /\ \E i \in DOMAIN S : in_KB(KB, S[i])
    /\ \E i \in DOMAIN W : in_KB(KB, Not(W[i]))
    /\ _has_model(KB)
    /\ LET lines == show_status(KB).lines
       IN  /\ Cardinality({i \in DOMAIN lines : lines[i][2] = "YES"}) = 1
           /\ Cardinality({i \in DOMAIN lines : lines[i][2] = "MAYBE"}) = 5

IsPrefix(a, b) == Len(a) <= Len(b) /\ SubSeq(b, 1, Len(a)) = a

NoDuplicates(kb) ==
    \A i, j \in DOMAIN kb : i # j => repr(kb[i]) # repr(kb[j])

\* C11: the KB never holds two sentences with the same printed form; every
\* call (add_fact, assert_item, exclude_item) leaves the KB it found as a
\* prefix of the KB it leaves, the 12 constraint sentences at the front; and
\* add_fact of sentences whose printed forms are all in the KB appends nothing.
C11_AppendOnlyNoDuplicates ==
    /\ NoDuplicates(KB)
    /\ [][/\ IsPrefix(KB, KB')
          /\ IsPrefix(InitKB, KB')
          /\ NoDuplicates(KB')
          /\ \A sentences \in FactLists :
                (\A i \in DOMAIN sentences : in_KB(KB', sentences[i]))
                    => add_fact(KB', sentences) = KB']_vars

\* add_fact was handed the same sentence twice and the KB holds it once
C11_Witness ==
    /\ last.op = "add_fact"
    /\ UserFacts = <<Not(W[1])>>
    /\ add_fact(KB, <<Not(W[1]), Not(W[1])>>) = KB

\* C12: an assert_item / exclude_item call reports one of the four outcomes
\* added, already present, would be inconsistent, no match; it reports added
\* iff the KB has grown by one sentence, and then the KB is the old one with
\* the call's literal (the symbol, or Not(symbol) for exclude_item) appended;
\* after each of the other three outcomes the KB is the one the call found.
C12_FourOutcomes ==
    [][IsItemCall(last') =>
        /\ last'.outcome \in {"added", "already", "inconsistent", "no match"}
        /\ last'.outcome = "added" <=> Len(KB') = Len(KB) + 1
        /\ last'.outcome = "added" => KB' = Append(KB, Literal(last'))
        /\ last'.outcome # "added" => KB' = KB]_vars

\* an exclusion was accepted after an assertion and the KB ends with both
\* literals
C12_Witness ==
    /\ last.op = "exclude_item"
    /\ last.outcome = "added"
    /\ Len(UserFacts) = 2
    /\ UserFacts[1].type = "Symbol"
    /\ UserFacts[2] = Not(Target(last))

\* a call made on a KB without a model, for a literal the KB does not hold
OnInconsistentKB ==
    /\ ~_has_model(KB)
    /\ IsItemCall(last')
    /\ Target(last') # None
    /\ ~in_KB(KB, Literal(last'))

\* C13 as stated: on a KB without a model, a call for a literal not yet in
\* the KB is not refused.
C13_InconsistentRefusesNothing ==
    [][OnInconsistentKB => last'.outcome \notin {"inconsistent", "no match"}]_vars

\* C13 as the code has it: on a KB without a model, every call for a literal
\* not yet in the KB is refused as would-be-inconsistent and leaves the KB as
\* it found it.
C13_InconsistentRefusesAll ==
    [][OnInconsistentKB => (last'.outcome = "inconsistent" /\ KB' = KB)]_vars

\* a call for a new literal was refused on a KB that had no model before it
C13_Witness ==
    /\ ~_has_model(KB)
    /\ IsItemCall(last)
    /\ Target(last) # None
    /\ ~in_KB(KB, Literal(last))
    /\ last.outcome = "inconsistent"

\* the sentences assert_item / exclude_item may add for a category
LiteralsOf(symbols) ==
    {symbols[i] : i \in DOMAIN symbols} \cup {Not(symbols[i]) : i \in DOMAIN symbols}

\* C14: a call whose text is the name of no item of the given category and a
\* substring of none or of several of them (an item of another category
\* included) reports no match, an outcome no other call reports, and leaves
\* the KB as it was; an accepted call adds a literal of a symbol of the given
\* category, and every sentence after the constraints is a literal of a symbol
\* of S, W or R.
C14_UnknownRejected ==
    [][IsItemCall(last') =>
        LET names == symbol_dict(last'.category)[1]
            text == lower(chars[last'.name])
            same == {i \in DOMAIN names : lower(chars[names[i]]) = text}
            hits == {i \in DOMAIN names : contains(text, lower(chars[names[i]]))}
            unknown == same = {} /\ Cardinality(hits) # 1
        IN  /\ unknown <=> last'.outcome = "no match"
            /\ unknown => KB' = KB
            /\ last'.outcome = "added" =>
                    KB'[Len(KB')] \in LiteralsOf(symbol_dict(last'.category)[2])
            /\ \A i \in (Len(InitKB) + 1)..Len(KB') : KB'[i] \in LiteralsOf(ALL)]_vars

\* after an accepted call, a room was asked for by the name of a weapon
C14_Witness ==
    /\ Len(UserFacts) >= 1
    /\ IsItemCall(last)
    /\ last.category = "r"
    /\ last.name = "wire"
    /\ last.outcome = "no match"

\* C15: a call reports already-present iff a sentence printed like its literal
\* is in the KB; a literal the KB entails without holding it (the last item
\* left of a category asserted, another item of an asserted item's category
\* excluded) is reported as added and appended.
C15_LiteralPresence ==
    [][(IsItemCall(last') /\ Target(last') # None) =>
        \A literal \in {Literal(last')} :
            \A present \in {repr(literal) \in {repr(KB[i]) : i \in DOMAIN KB}} :
                /\ last'.outcome = "already" <=> present
                /\ (~present /\ model_check(KB, literal, ALL))
                        => (last'.outcome = "added" /\ KB' = Append(KB, literal))]_vars

\* the last suspect left after two exclusions has been asserted and added,
\* though the exclusions entailed it
C15_Witness ==
    /\ last.op = "assert_item"
    /\ last.outcome = "added"
    /\ Len(UserFacts) = 3
    /\ UserFacts[1].type = "Not"
    /\ UserFacts[2].type = "Not"
    /\ UserFacts[3] = Target(last)
    /\ model_check(SubSeq(KB, 1, Len(KB) - 1), UserFacts[3], ALL)

\* C16: model_check(kb, query, symbols) answers True iff no assignment over
\* the symbols satisfies every sentence of kb and not the query; with a kb no
\* assignment satisfies it answers True for any query, for a symbol and for
\* its negation, so that the status loop alone would print every item as YES,
\* and show_status, which looks for a model first, prints none; with a kb
\* that has a model it never answers True for a symbol and its negation.
C16_ModelCheck ==
    result # None =>
        LET kb == args.kb
            symbols == args.symbols
            sat == {model \in Models(symbols) : satisfies(model, kb)}
            against == {model \in sat : ~eval_sentence(args.query, model)}
        IN  /\ result[1] <=> against = {}
            /\ sat = {} =>
                    /\ result[1]
                    /\ \A i \in DOMAIN symbols :
                            /\ model_check(kb, symbols[i], symbols)
                            /\ model_check(kb, Not(symbols[i]), symbols)
            /\ sat # {} =>
                    \A i \in DOMAIN symbols :
                        ~(/\ model_check(kb, symbols[i], symbols)
                          /\ model_check(kb, Not(symbols[i]), symbols))
            /\ (symbols = ALL /\ sat = {}) =>
                    /\ status_lines(kb, SUSPECTS, S)
                            = [i \in DOMAIN SUSPECTS |-> <<SUSPECTS[i], "YES">>]
                    /\ show_status(kb) = [inconsistent |-> TRUE, lines |-> <<>>]

\* model_check has answered True for the negation of a symbol on a KB that no
\* assignment satisfies
C16_Witness ==
    /\ result = <<TRUE>>
    /\ args.symbols = ALL
    /\ args.query = Not(S[1])
    /\ ~_has_model(args.kb)

\* C17: whatever add_fact, assert_item and exclude_item calls were made, every
\* assignment that satisfies the KB makes exactly one suspect, one weapon and
\* one room true; so no next(...) of get_candidates runs out, and there are
\* as many candidates as satisfying assignments.
C17_OnePerCategory ==
    LET sat == {model \in Models(ALL) : satisfies(model, KB)}
        TrueOf(model, symbols) == {i \in DOMAIN symbols : model[symbols[i].name]}
    IN  /\ \A model \in sat :
                /\ Cardinality(TrueOf(model, S)) = 1
                /\ Cardinality(TrueOf(model, W)) = 1
                /\ Cardinality(TrueOf(model, R)) = 1
        /\ get_candidates(KB) # StopIteration
        /\ Cardinality(get_candidates(KB)) = Cardinality(sat)

\* a disjunction across two categories was added directly: 15 of the 27
\* triples are left
C17_Witness ==
    /\ last.op = "add_fact"
    /\ UserFacts = <<Or(<<S[2], W[3]>>)>>
    /\ Cardinality(get_candidates(KB)) = 15

\* the items of a category the user's literals leave: the asserted one, or
\* without an assertion those not excluded
NotRuledOut(names, symbols) ==
    LET asserted == {i \in DOMAIN symbols : symbols[i] \in FactSet}
    IN  IF asserted # {} THEN {names[i] : i \in asserted}
        ELSE {names[i] : i \in {j \in DOMAIN symbols : Not(symbols[j]) \notin FactSet}}

\* C18: after assert_item and exclude_item calls only, the candidates are all
\* the triples of a suspect, a weapon and a room that are not ruled out; there
\* is at least one; get_solution returns a triple iff there is exactly one
\* candidate, and None iff there are two or more.
C18_CandidatesAreProduct ==
    \A candidates \in {get_candidates(KB)} :
        \A solution \in {get_solution(KB)} :
            /\ candidates = NotRuledOut(SUSPECTS, S) \X NotRuledOut(WEAPONS, W)
                                \X NotRuledOut(ROOMS, R)
            /\ candidates # {}
            /\ solution # None <=> Cardinality(candidates) = 1
            /\ solution # None => solution \in candidates
            /\ solution = None <=> Cardinality(candidates) >= 2

\* a suspect was asserted, two weapons and two rooms were excluded: the one
\* triple left is the solution
C18_Witness ==
    /\ \E i \in DOMAIN S : S[i] \in FactSet
    /\ {Not(W[1]), Not(W[2]), Not(R[1]), Not(R[2])} \subseteq FactSet
    /\ W[3] \notin FactSet
    /\ R[3] \notin FactSet
    /\ Cardinality(get_candidates(KB)) = 1
    /\ get_solution(KB) # None

\* C19: after assert_item and exclude_item calls only, the KB holds for each
\* category at most one symbol, not the negations of all three symbols, and
\* no symbol together with its negation; asserting an item when another item
\* of its category is asserted is refused, and excluding an item when the
\* two others of its category are excluded is refused.
C19_LiteralInvariant ==
    /\ \A symbols \in {S, W, R} :
            LET pos == {i \in DOMAIN symbols : symbols[i] \in FactSet}
                neg == {i \in DOMAIN symbols : Not(symbols[i]) \in FactSet}
            IN  /\ Cardinality(pos) <= 1
                /\ neg # DOMAIN symbols
                /\ pos \cap neg = {}
    /\ (IsItemCall(last) /\ Target(last) # None) =>
            LET symbols == symbol_dict(last.category)[2]
                others == {symbols[i] : i \in DOMAIN symbols} \ {Target(last)}
            IN  /\ (last.op = "assert_item" /\ \E Y \in others : Y \in FactSet)
                        => last.outcome = "inconsistent"
                /\ (last.op = "exclude_item" /\ \A Y \in others : Not(Y) \in FactSet)
                        => last.outcome = "inconsistent"

\* the exclusion of the one item left of a category has been refused
C19_Witness ==
    /\ last.op = "exclude_item"
    /\ last.outcome = "inconsistent"
    /\ Len(UserFacts) = 2
    /\ UserFacts[1].type = "Not"
    /\ UserFacts[2].type = "Not"
    /\ Not(Target(last)) \notin FactSet

\* C20: no category ever has more than three literals in the KB, so at most
\* 9 calls are accepted and the KB has at most 12 + 9 = 21 sentences; and
\* every session comes to a point after which no call is accepted (each is
\* already present, refused as inconsistent or has no match) and the KB stays
\* as it is.
C20_BoundedGrowth ==
    /\ [](/\ \A category \in {"s", "w", "r"} : LiteralsIn(category) <= 3
          /\ Len(UserFacts) <= 9
          /\ Len(KB) <= 21)
    /\ <>[][/\ KB' = KB
            /\ IsItemCall(last') =>
                    last'.outcome \in {"already", "inconsistent", "no match"}]_vars

\* the KB has 21 sentences and the assertion of another suspect was refused
C20_Witness ==
    /\ Len(KB) = 21
    /\ Len(UserFacts) = 9
    /\ last.op = "assert_item"
    /\ last.category = "s"
    /\ last.outcome = "inconsistent"

====
